---- MODULE Spec2Model ----
(***************************************************************************)
(* Mission state machine of the aerial-robotics controller:                *)
(*   src/app/flight_ctl.py     FlightController (driver, update/next)      *)
(*   src/app/flight_states.py  FlightContext, the State classes            *)
(*   src/app/drone.py          Drone (telemetry, connection), ProbalityMap *)
(* Lengths and positions are integer centimetres (0.5 m = 50), angles are  *)
(* integer multiples of pi/16.                                             *)
(***************************************************************************)
EXTENDS Integers, Sequences, FiniteSets, TLC

VARIABLES
    config,     \* values imported from app/config.py (flight_states.py:10, flight_ctl.py:7-14)
    sensors,    \* fctx.ctx.sensors: the reading the control loop stored before the tick
    occupied,   \* candidate points whose cell of the inflated fctx.navigation.map is set
    fctx,       \* FlightContext: trajectory, home_pad, over_pad, scan, target_pad, pad_detection
    vec,        \* the mutable Vec2 objects the context refers to (object id -> <<x, y>>)
    state,      \* FlightController._state: the current State instance and its fields
    z_hist,     \* FlightController.z_hist
    pc,         \* position inside update()/next(): idle, update, next, decide, start
    ret,        \* the value the current state's next() returned
    result,     \* the value of the last completed update()
    depth,      \* nesting of update() calls in the running tick
    err,        \* the exception that ended the mission, or "none"
    entry,      \* kind of the first state of the controller
    startCalls, \* history: start() calls on the current State instance
    nextCalled, \* history: next() has been called on the current State instance
    byTransition, \* history: the current State instance was installed by next()
    targeted,   \* history: the candidates TargetSearch.start() has targeted, in order
    drone,      \* Drone (drone.py:108-257): telemetry store, lock, the two threads
    link,       \* Drone: connection future, connect() tasks, transport callbacks
    raster,     \* ProbalityMap (drone.py:53-102) and the outcome of its last calls
    queue,      \* fctx.path, the pending waypoints, and the last command (flight_ctl.py:65-122)
    reorder,    \* a reordering loop of compute_target_map (flight_states.py:271-306)
    centre      \* a TargetCentering object under centering() (flight_states.py:349-479)

\* the variables of the mission state machine
mission == <<config, sensors, occupied, fctx, vec, state, z_hist, pc, ret, result,
             depth, err, entry, startCalls, nextCalled, byTransition, targeted>>

\* the variables of the vehicle interface and of the planning helpers
others == <<drone, link, raster, queue, reorder, centre>>

vars == <<mission, others>>

----------------------------------------------------------------------------
(* Bounds of the model *)

\* update() nests at most this deep before the interpreter raises RecursionError
RecursionLimit == 6
\* the history of targeted candidates keeps at most this many entries
MaxTargeted == 3
\* finest altitude grid: 0 .. MaxAltitude centimetres
MaxAltitude == 56
\* raw readings a telemetry batch may carry: 1 .. MaxReading
MaxReading == 2
\* connect() is called at most this many times
MaxAttempts == 3
\* the transport raises at most this many connection events
MaxEvents == 3
\* fill() is called at most this many times
MaxFills == 3
\* the planner answers paths of at most this many waypoints
MaxPath == 3
\* apply_flight_command() is called at most this many times
MaxTicks == 4
\* a list given to the reordering loop has at most this many points
MaxPoints == 5
\* centering() is called until it has switched axis this many times
MaxSwitches == 6

(* Values the configuration may hold (app/config.py is not part of src/) *)
AltitudeErrors == {3, 5}
PositionErrors == {10, 15}
InitialPositions == {<<100, 100>>}
MaxSlopes == {2}

(* Sensor readings a tick may see *)
ZVals == {10, 46, 50}
SensorPositions == {<<100, 100>>, <<200, 100>>, <<212, 100>>, <<470, 270>>, <<470, 110>>}

----------------------------------------------------------------------------
(* References to positions.  A Vec2 is a mutable object (dataclass), so the  *)
(* context holds a reference to it; tuples and lists are held by value.      *)

None == [tag |-> "none", id |-> 0, x |-> 0, y |-> 0]
VecRef(n) == [tag |-> "vec", id |-> n, x |-> 0, y |-> 0]
Val(p) == [tag |-> "val", id |-> 0, x |-> p[1], y |-> p[2]]
\* the expression `Vec2 | None` that TargetCentering.__init__ stores
TypeUnion == [tag |-> "typeunion", id |-> 0, x |-> 0, y |-> 0]

Deref(r, v) == IF r.tag = "vec" THEN v[r.id] ELSE <<r.x, r.y>>

Abs(n) == IF n < 0 THEN -n ELSE n

StateKinds == {"Boot", "Takeoff", "Scan", "GoForward", "GoLower", "Stop",
               "TargetSearch", "TargetCentering", "ReturnHome"}

----------------------------------------------------------------------------
(* FlightContext (flight_states.py:48-75) *)

\* Trajectory(): altitude 0.0, orientation 0.0, position Vec2() (object 1)
NewTrajectory == [altitude |-> 0, orientation |-> 0, position |-> VecRef(1)]

\* update() reads fctx.pad_detection (flight_ctl.py:36), which the dataclass
\* does not declare: it is a flag put on the context before the mission.
NewFlightContext(padDetection) ==
    [trajectory |-> NewTrajectory, home_pad |-> None, over_pad |-> FALSE,
     scan |-> FALSE, target_pad |-> None, pad_detection |-> padDetection]

get_position(s) == <<s.x, s.y>>

\* (self.get_position() - position).abs() < error, compared on the squares
is_near_position(s, p, error) ==
    (s.x - p[1]) * (s.x - p[1]) + (s.y - p[2]) * (s.y - p[2]) < error * error

\* the target may be a Vec2 or, after TargetSearch.start, a tuple; the
\* subtraction is taken to accept both
is_near_target(f, v, s, c) ==
    is_near_position(s, Deref(f.trajectory.position, v), c.POSITION_ERROR)

\* Readings <<z, altitude, error>> one tolerance below the target whose
\* difference double arithmetic rounds below the tolerance:
\* abs(0.45 - 0.5) = 0.04999999999999999 and abs(0.15 - 0.1) = 0.04999999999999999
RoundedBelow == {<<45, 50, 5>>, <<15, 10, 5>>}

\* abs(self.ctx.sensors.z - altitude) < error
is_near_altitude_le(s, altitude, error) == Abs(s.z - altitude) <= error
is_near_altitude(s, altitude, error) ==
    Abs(s.z - altitude) < error \/ <<s.z, altitude, error>> \in RoundedBelow

is_near_target_altitude(f, s, c) ==
    is_near_altitude(s, f.trajectory.altitude, c.ALTITUDE_ERROR)

----------------------------------------------------------------------------
(* State instances.  One record shape for every class; a class uses only   *)
(* its own fields.  The tri-state fields hold "unset" until the code        *)
(* assigns them (reading an unset attribute raises AttributeError).         *)

NewState(kind) ==
    [kind |-> kind,
     \* TargetSearch.__init__
     research_points |-> << >>, index |-> 0,
     \* Scan: the timer has been reset by start()
     timer_reset |-> FALSE,
     \* TargetCentering.__init__
     target_pad |-> IF kind = "TargetCentering" THEN TypeUnion ELSE None,
     x_pos |-> FALSE, y_pos |-> FALSE,
     \* TargetCentering attributes that only update_platform_pos assigns
     platform_x_found |-> "unset", platform_y_found |-> "unset",
     touch_down |-> None, change_axe |-> -1, research_axe |-> -1]

\* the value of "no state": next() returned None
NoState == NewState("None")

----------------------------------------------------------------------------
(* TargetSearch.compute_target_map (flight_states.py:188-312) *)

research_points1 ==
    << <<470, 270>>, <<470, 190>>, <<470, 110>>, <<470, 30>>,
       <<420, 30>>, <<420, 110>>, <<420, 190>>, <<420, 270>>,
       <<380, 270>>, <<380, 190>>, <<380, 110>>, <<380, 30>> >>

research_points2 ==
    << <<400, 80>>, <<400, 150>>, <<400, 230>>,
       <<440, 230>>, <<440, 150>>, <<440, 80>> >>

research_points3 ==
    << <<470, 80>>, <<470, 150>>, <<470, 230>>, <<440, 270>>, <<440, 190>>,
       <<440, 110>>, <<440, 30>>, <<420, 80>>, <<420, 150>>, <<420, 230>>,
       <<400, 270>>, <<400, 190>>, <<400, 110>>, <<400, 30>>, <<380, 80>>,
       <<380, 150>>, <<380, 230>> >>

Range(L) == {L[i] : i \in 1..Len(L)}

AllPoints == Range(research_points1) \cup Range(research_points2)
                 \cup Range(research_points3)

\* the loops of lines 237-269: delete every point whose inflated cell is set
FilterOccupied(L, occ) == SelectSeq(L, LAMBDA p : p \notin occ)

\* line 273
min_neighbourg == 3

\* math.sqrt(dx**2 + dy**2) < max_dist with max_dist = 1.50.  In double
\* arithmetic 2.3 - 0.8 = 1.4999999999999998, so two points 0.8 and 2.3 high
\* on one vertical are closer than 1.5 for the code although they are 1.5 apart.
distance_lt_max(p, q) ==
    LET d2 == (p[1] - q[1]) * (p[1] - q[1]) + (p[2] - q[2]) * (p[2] - q[2])
    IN  \/ d2 < 150 * 150
        \/ p[1] = q[1] /\ {p[2], q[2]} = {80, 230}

\* the place of the first element equal to p (from 1)
FirstIndex(L, p) ==
    CHOOSE k \in 1..Len(L) : L[k] = p /\ \A j \in 1..(k - 1) : L[j] # p

RemoveAt(L, i) == SubSeq(L, 1, i - 1) \o SubSeq(L, i + 1, Len(L))

\* list.remove(p): the first element equal to p goes
RemoveFirst(L, p) == RemoveAt(L, FirstIndex(L, p))

\* lines 285-286 putting the point at the front of the list
MoveToFront(L, p) == <<p>> \o RemoveFirst(L, p)

\* lines 285-286 and 301-302: remove(given_point), append(given_point)
MoveToEnd(L, p) == Append(RemoveFirst(L, p), p)

\* the points of the list closer than max_dist to p, p itself included
count(L, p) == Cardinality({k \in 1..Len(L) : distance_lt_max(L[k], p)})

\* a point is deferred only when it has no other point within max_dist
IsDeferred_alone(L, p) == count(L, p) <= 1

\* lines 284 and 299: count <= min_neighbourg, min_neighbourg = 3
IsDeferred(L, p) == count(L, p) <= min_neighbourg

\* the while loops of lines 275-306 (id is 0-based in the code)
RECURSIVE MoveIsolated(_, _, _)
MoveIsolated(L, id, nb) ==
    IF nb >= Len(L) THEN L
    ELSE LET given_point == L[id + 1]
         IN  IF IsDeferred(L, given_point)
             THEN MoveIsolated(MoveToEnd(L, given_point), id, nb + 1)
             ELSE MoveIsolated(L, id + 1, nb + 1)

compute_target_map(occ) ==
    FilterOccupied(research_points1, occ)
        \o MoveIsolated(FilterOccupied(research_points2, occ), 0, 0)
        \o MoveIsolated(FilterOccupied(research_points3, occ), 0, 0)

\* Inflated occupancy maps the navigation grid may hold, as the set of
\* candidate points they cover: free, an obstacle over the first zone's east
\* column, an obstacle over the north of the arena, everything covered.
OccupancyMaps ==
    { {},
      {p \in AllPoints : p[1] = 470 /\ p[2] >= 190},
      {p \in AllPoints : p[2] >= 80},
      AllPoints }

----------------------------------------------------------------------------
(* start() of each State class.  The result holds the instance, the        *)
(* context and the Vec2 objects after the call, and the exception raised.  *)

TakeoffAltitude == 50
GoForwardX == 200
GoLowerAltitude == 10

Took(st, f, v, e) == [st |-> st, f |-> f, v |-> v, e |-> e]

start(st, f, v, occ) ==
    CASE st.kind = "Takeoff" ->
            Took(st, [f EXCEPT !.trajectory.altitude = TakeoffAltitude], v, "none")
      [] st.kind = "Scan" ->
            Took([st EXCEPT !.timer_reset = TRUE], [f EXCEPT !.scan = TRUE], v, "none")
      [] st.kind = "GoForward" ->
            \* fctx.trajectory.position.x = 2.0 writes into the object the
            \* trajectory refers to; a tuple has no attribute x
            IF f.trajectory.position.tag = "vec"
            THEN Took(st, [f EXCEPT !.scan = TRUE],
                      [v EXCEPT ![f.trajectory.position.id][1] = GoForwardX], "none")
            ELSE Took(st, f, v, "AttributeError")
      [] st.kind = "GoLower" ->
            Took(st, [f EXCEPT !.trajectory.altitude = GoLowerAltitude,
                               !.trajectory.orientation = 0], v, "none")
      [] st.kind = "TargetSearch" ->
            LET pts == compute_target_map(occ)
                st1 == [st EXCEPT !.research_points = pts]
            IN  IF st.index < Len(pts)
                THEN Took(st1, [f EXCEPT !.trajectory.position = Val(pts[st.index + 1])],
                          v, "none")
                ELSE Took(st1, f, v, "IndexError")
      [] st.kind = "ReturnHome" ->
            IF f.home_pad = None
            THEN Took(st, f, v, "AssertionError")
            ELSE Took(st, [f EXCEPT !.trajectory.position = f.home_pad], v, "none")
      [] OTHER -> Took(st, f, v, "none")

----------------------------------------------------------------------------
(* next() of each State class.  ret is the returned state, NoState for     *)
(* None.  elapsed is the answer of Scan's timer to is_elapsed(10.0).       *)

Went(st, r, f, v) == [st |-> st, ret |-> r, f |-> f, v |-> v]

\* lines 90-96 with the target being the home_pad object itself
BootNext_shared(st, f, v, s, c) ==
    Went(st, NewState("Takeoff"),
         [f EXCEPT !.home_pad = VecRef(2), !.trajectory.position = VecRef(2)],
         [v EXCEPT ![2] = get_position(s), ![3] = c.INITIAL_POSITION])

BootNext(st, f, v, s, c) ==
    \* home_pad is a new Vec2 (object 2), the target a new Vec2 (object 3)
    Went(st, NewState("Takeoff"),
         [f EXCEPT !.home_pad = VecRef(2), !.trajectory.position = VecRef(3)],
         [v EXCEPT ![2] = get_position(s), ![3] = c.INITIAL_POSITION])

TakeoffNext(st, f, v, s, c) ==
    IF is_near_target_altitude(f, s, c)
    THEN Went(st, NewState("GoForward"), f, v)
    ELSE Went(st, NoState, f, v)

\* Scan.next clearing the flag on every call
ScanNext_clears_always(st, f, v, elapsed) ==
    IF elapsed
    THEN Went(st, NewState("Stop"), [f EXCEPT !.scan = FALSE], v)
    ELSE Went(st, NoState, [f EXCEPT !.scan = FALSE], v)

ScanNext(st, f, v, elapsed) ==
    IF elapsed
    THEN Went(st, NewState("Stop"), [f EXCEPT !.scan = FALSE], v)
    ELSE Went(st, NoState, f, v)

GoForwardNext(st, f, v, s, c) ==
    IF is_near_target(f, v, s, c)
    THEN Went(st, NewState("ReturnHome"), f, v)
    ELSE Went(st, NoState, f, v)

\* GoLower.next without its altitude test
GoLowerNext_unguarded(st, f, v, s, c) == Went(st, NewState("Stop"), f, v)

GoLowerNext(st, f, v, s, c) ==
    IF is_near_target_altitude(f, s, c)
    THEN Went(st, NewState("Stop"), f, v)
    ELSE Went(st, NoState, f, v)

StopNext(st, f, v) == Went(st, NoState, f, v)

TargetSearchNext(st, f, v, s, c) ==
    IF st.index = Len(st.research_points)
    THEN Went(st, NewState("Stop"), f, v)
    ELSE IF is_near_target(f, v, s, c)
         \* self.index = self.index + 1; return TargetSearch()
         THEN Went([st EXCEPT !.index = st.index + 1], NewState("TargetSearch"), f, v)
         ELSE Went(st, NoState, f, v)

TargetCenteringNext(st, f, v) ==
    IF st.x_pos \/ st.y_pos
    THEN Went(st, NewState("GoLower"), [f EXCEPT !.target_pad = st.target_pad], v)
    ELSE Went(st, NoState, f, v)

ReturnHomeNext(st, f, v, s, c) ==
    IF is_near_target(f, v, s, c)
    THEN Went(st, NewState("GoLower"), f, v)
    ELSE Went(st, NoState, f, v)

StateNext(st, f, v, s, c, elapsed) ==
    CASE st.kind = "Boot" -> BootNext(st, f, v, s, c)
      [] st.kind = "Takeoff" -> TakeoffNext(st, f, v, s, c)
      [] st.kind = "Scan" -> ScanNext(st, f, v, elapsed)
      [] st.kind = "GoForward" -> GoForwardNext(st, f, v, s, c)
      [] st.kind = "GoLower" -> GoLowerNext(st, f, v, s, c)
      [] st.kind = "Stop" -> StopNext(st, f, v)
      [] st.kind = "TargetSearch" -> TargetSearchNext(st, f, v, s, c)
      [] st.kind = "TargetCentering" -> TargetCenteringNext(st, f, v)
      [] st.kind = "ReturnHome" -> ReturnHomeNext(st, f, v, s, c)

----------------------------------------------------------------------------
(* TargetCentering.update_platform_pos (flight_states.py:421-479).          *)
(* theta is atan2(v_direction[1], v_direction[0]) in units of pi/16, so    *)
(* the octant boundaries (odd multiples of pi/8) are at 2, 6, 10 and 14.   *)

EdgeOffset == 15

Octant(angle) ==
    CASE angle >= -14 /\ angle < -10 -> "BackLeft"
      [] angle >= -10 /\ angle < -6 -> "Left"
      [] angle >= -6 /\ angle < -2 -> "FrontLeft"
      [] angle >= -2 /\ angle < 2 -> "Front"
      [] angle >= 2 /\ angle < 6 -> "FrontRight"
      [] angle >= 6 /\ angle < 10 -> "Right"
      [] angle >= 10 /\ angle < 14 -> "BackRight"
      [] angle >= 14 \/ angle < -14 -> "Back"

\* the tests of the if/elif chain, lines 432-479, one per octant
Octants == {"BackLeft", "Left", "FrontLeft", "Front", "FrontRight", "Right",
            "BackRight", "Back"}
DiagonalOctants == {"BackLeft", "FrontLeft", "FrontRight", "BackRight"}

InOctant(o, angle) ==
    CASE o = "BackLeft" -> angle >= -14 /\ angle < -10
      [] o = "Left" -> angle >= -10 /\ angle < -6
      [] o = "FrontLeft" -> angle >= -6 /\ angle < -2
      [] o = "Front" -> angle >= -2 /\ angle < 2
      [] o = "FrontRight" -> angle >= 2 /\ angle < 6
      [] o = "Right" -> angle >= 6 /\ angle < 10
      [] o = "BackRight" -> angle >= 10 /\ angle < 14
      [] o = "Back" -> angle >= 14 \/ angle < -14

Crossed(st, e) == [st |-> st, e |-> e]

\* lines 421-479 with a diagonal crossing seeding the estimate every time
update_platform_pos_reseed(st, theta, position) ==
    LET o == Octant(-theta)
    IN  IF o \in DiagonalOctants THEN Crossed([st EXCEPT !.touch_down = Val(position)], "none")
        ELSE IF o \in {"Left", "Right"}
        THEN Crossed([st EXCEPT !.platform_y_found = "true", !.change_axe = 0,
                                !.research_axe = 0], "none")
        ELSE Crossed([st EXCEPT !.platform_x_found = "true", !.change_axe = 0,
                                !.research_axe = 1], "none")

update_platform_pos(st, theta, position) ==
    LET angle == -theta
        o == Octant(angle)
    IN  CASE o \in {"BackLeft", "FrontLeft", "FrontRight", "BackRight"} ->
                \* not self.platform_x_found and not self.platform_y_found
                IF st.platform_x_found = "unset" THEN Crossed(st, "AttributeError")
                ELSE IF st.platform_x_found = "true" THEN Crossed(st, "none")
                ELSE IF st.platform_y_found = "unset" THEN Crossed(st, "AttributeError")
                ELSE IF st.platform_y_found = "true" THEN Crossed(st, "none")
                ELSE Crossed([st EXCEPT !.touch_down = Val(position)], "none")
          [] o = "Left" ->
                Crossed([st EXCEPT !.touch_down = Val(<<position[1], position[2] + EdgeOffset>>),
                                   !.platform_y_found = "true",
                                   !.change_axe = 0, !.research_axe = 0], "none")
          [] o = "Right" ->
                Crossed([st EXCEPT !.touch_down = Val(<<position[1], position[2] - EdgeOffset>>),
                                   !.platform_y_found = "true",
                                   !.change_axe = 0, !.research_axe = 0], "none")
          [] o = "Front" ->
                Crossed([st EXCEPT !.touch_down = Val(<<position[1] + EdgeOffset, position[2]>>),
                                   !.platform_x_found = "true",
                                   !.change_axe = 0, !.research_axe = 1], "none")
          [] o = "Back" ->
                Crossed([st EXCEPT !.touch_down = Val(<<position[1] - EdgeOffset, position[2]>>),
                                   !.platform_x_found = "true",
                                   !.change_axe = 0, !.research_axe = 1], "none")

----------------------------------------------------------------------------
(* FlightController (flight_ctl.py) *)

\* detect_pad: the slope of the least-squares line through the three samples
\* of z_hist at abscissae 0, 1, 2 is (z_hist[2] - z_hist[0]) / 2
Shift(zh, z) == Append(Tail(zh), z)

detect_pad(f, zh, c) ==
    LET slope2 == zh[3] - zh[1]
    IN  IF slope2 > 2 * c.MAX_SLOPE THEN [f EXCEPT !.over_pad = TRUE]
        ELSE IF slope2 < -(2 * c.MAX_SLOPE) /\ f.over_pad THEN [f EXCEPT !.over_pad = FALSE]
        ELSE f

\* type(next): the class object of an instance
type(st) == [class |-> st.kind]

\* line 53: type(next) == self._state compares a class with an instance
SameStateGuard(r, st) == type(r) = st

\* line 63 written like line 53: the class compared with the instance
IsStop_instance(st) == type(st) = st

\* line 63: type(self._state) == Stop
IsStop(st) == type(st) = [class |-> "Stop"]

Bool(b) == IF b THEN "True" ELSE "False"

(* The control loop stores a reading and calls update() *)
TickWith(P, Z) ==
    /\ UNCHANGED others
    /\ pc = "idle"
    /\ err = "none"
    /\ \E p \in P, z \in Z : sensors' = [x |-> p[1], y |-> p[2], z |-> z]
    /\ pc' = "update"
    /\ depth' = 1
    /\ result' = "pending"
    /\ UNCHANGED <<config, occupied, fctx, vec, state, z_hist, ret, err, entry,
                   startCalls, nextCalled, byTransition, targeted>>

Tick == TickWith(SensorPositions, ZVals)

(* update(), lines 35-39 *)
Update ==
    /\ UNCHANGED others
    /\ pc = "update"
    /\ IF fctx.pad_detection
       THEN /\ z_hist' = Shift(z_hist, sensors.z)
            /\ fctx' = detect_pad(fctx, Shift(z_hist, sensors.z), config)
       ELSE UNCHANGED <<z_hist, fctx>>
    /\ pc' = "next"
    /\ UNCHANGED <<config, sensors, occupied, vec, state, ret, result, depth, err,
                   entry, startCalls, nextCalled, byTransition, targeted>>

(* next(), line 42: next = self._state.next(self._fctx) *)
CallNext ==
    /\ UNCHANGED others
    /\ pc = "next"
    /\ \E elapsed \in BOOLEAN :
          LET r == StateNext(state, fctx, vec, sensors, config, elapsed)
          IN  /\ state' = r.st
              /\ ret' = r.ret
              /\ fctx' = r.f
              /\ vec' = r.v
    /\ nextCalled' = TRUE
    /\ pc' = "decide"
    /\ UNCHANGED <<config, sensors, occupied, z_hist, result, depth, err, entry,
                   startCalls, byTransition, targeted>>

(* next(), lines 52-63, up to the call of start() *)
Decide ==
    /\ UNCHANGED others
    /\ pc = "decide"
    /\ IF ret # NoState
       THEN IF SameStateGuard(ret, state)
            THEN /\ result' = "True"
                 /\ pc' = "idle"
                 /\ UNCHANGED <<state, startCalls, nextCalled, byTransition>>
            ELSE /\ state' = ret
                 /\ pc' = "start"
                 /\ startCalls' = 0
                 /\ nextCalled' = FALSE
                 /\ byTransition' = TRUE
                 /\ UNCHANGED result
       ELSE /\ result' = Bool(IsStop(state))
            /\ pc' = "idle"
            /\ UNCHANGED <<state, startCalls, nextCalled, byTransition>>
    /\ ret' = NoState
    /\ UNCHANGED <<config, sensors, occupied, fctx, vec, z_hist, depth, err, entry,
                   targeted>>

(* lines 60-61 without the call of start() *)
CallStart_skipped ==
    /\ UNCHANGED others
    /\ pc = "start"
    /\ IF depth >= RecursionLimit
       THEN err' = "RecursionError" /\ pc' = "idle" /\ UNCHANGED depth
       ELSE pc' = "update" /\ depth' = depth + 1 /\ UNCHANGED err
    /\ UNCHANGED <<config, sensors, occupied, fctx, vec, state, z_hist, ret, result,
                   entry, startCalls, nextCalled, byTransition, targeted>>

(* next(), lines 60-61: next.start(self._fctx); return self.update() *)
CallStart ==
    /\ UNCHANGED others
    /\ pc = "start"
    /\ LET r == start(state, fctx, vec, occupied)
       IN  /\ state' = r.st
           /\ fctx' = r.f
           /\ vec' = r.v
           /\ targeted' = IF state.kind = "TargetSearch" /\ r.e = "none"
                                /\ Len(targeted) < MaxTargeted
                          THEN Append(targeted, state.index)
                          ELSE targeted
           /\ IF r.e # "none"
              THEN err' = r.e /\ pc' = "idle" /\ UNCHANGED depth
              ELSE IF depth >= RecursionLimit
                   THEN err' = "RecursionError" /\ pc' = "idle" /\ UNCHANGED depth
                   ELSE pc' = "update" /\ depth' = depth + 1 /\ UNCHANGED err
    /\ startCalls' = startCalls + 1
    /\ UNCHANGED <<config, sensors, occupied, z_hist, ret, result, entry,
                   nextCalled, byTransition>>

(* An edge crossing reported to the centering state between two ticks; the  *)
(* direction of motion and the position are those of the crossing.         *)
Directions == -16..16

EdgeCrossing ==
    /\ UNCHANGED others
    /\ pc = "idle"
    /\ err = "none"
    /\ state.kind = "TargetCentering"
    /\ \E theta \in Directions, position \in SensorPositions :
          LET r == update_platform_pos(state, theta, position)
          IN  /\ state' = r.st
              /\ err' = r.e
    /\ UNCHANGED <<config, sensors, occupied, fctx, vec, z_hist, pc, ret, result,
                   depth, entry, startCalls, nextCalled, byTransition, targeted>>

(* A State as the protocol declares it (flight_states.py:78-83): next()     *)
(* returns None or an instance of any State class.                          *)
ProtocolNext ==
    /\ UNCHANGED others
    /\ pc = "next"
    /\ \E k \in StateKinds \cup {"None"} : ret' = NewState(k)
    /\ nextCalled' = TRUE
    /\ pc' = "decide"
    /\ UNCHANGED <<config, sensors, occupied, fctx, vec, state, z_hist, result,
                   depth, err, entry, startCalls, byTransition, targeted>>

----------------------------------------------------------------------------
(* Drone: the telemetry store, drone.py:109-127, 177-179, 226-257.          *)
(* The transport delivers every log packet on its one receiving thread, so *)
(* a callback runs to its end before the next one starts; the control      *)
(* context reads at any moment.  Objects live in a heap (object id ->      *)
(* fields) because the store hands out references; id 0 is no object.      *)

\* the assignments of lines 229-236 and of lines 239-255, in their order
StabiliserWrites == <<"x", "y", "z", "back", "front", "left", "right", "yaw">>
RangeWrites == <<"down", "roll", "pitch", "vx", "vy">>

SensorFields == Range(StabiliserWrites) \cup Range(RangeWrites)

Writes(name) == IF name = "Stabiliser" THEN StabiliserWrites ELSE RangeWrites

\* the value a line stores for the raw reading d of its batch
Converted(field, d) ==
    IF field \in {"back", "front", "left", "right", "down"} THEN <<"mm_to_m", d>>
    ELSE IF field \in {"yaw", "roll", "pitch"} THEN <<"deg_to_rad", d>>
    ELSE <<"float", d>>

\* Sensors(), lines 114 and 118
DefaultSensors == [f \in SensorFields |-> <<"float", 0>>]

SnapshotIds == 2..4

\* the assignment of line 255 with the working object itself instead of a copy
replace_alias(d, obj) == [heap |-> d.heap, ref |-> obj]

\* dataclasses.replace(obj), line 255: a new object with the fields of obj
replace(d, obj) ==
    LET id == CHOOSE n \in SnapshotIds :
                  /\ n \notin {d._last_sensor_data, d.returned}
                  /\ \A m \in SnapshotIds :
                        m \notin {d._last_sensor_data, d.returned} => n <= m
    IN  [heap |-> [d.heap EXCEPT ![id] = d.heap[obj]], ref |-> id]

\* Drone.__init__, lines 109-127, with both threads at rest
NewDrone ==
    [heap |-> [id \in 1..4 |-> DefaultSensors],
     _sensors |-> 1,
     _last_sensor_data |-> 2,
     _lock |-> "free",
     callback |-> "idle",     \* idle, write, acquire, locked
     name |-> "none",         \* cfg.name of the running callback
     data |-> 0,              \* the raw reading of its batch
     written |-> 0,           \* assignments the running callback has made
     reader |-> "idle",       \* idle, locked
     returned |-> 0,          \* what get_last_sensor_reading() returned last
     seen |-> DefaultSensors, \* history: the fields of that object at the return
     whole |-> [id \in 1..4 |-> TRUE],  \* history: the object was whole when made
     atEnd |-> DefaultSensors]  \* history: the working state at the last callback's end

(* _on_sensor_data is called with a batch (line 226) *)
SensorData ==
    /\ drone.callback = "idle"
    /\ \E name \in {"Stabiliser", "Range"}, d \in 1..MaxReading :
          drone' = [drone EXCEPT !.callback = "write", !.name = name, !.data = d,
                                 !.written = 0]
    /\ UNCHANGED <<mission, link, raster, queue, reorder, centre>>

(* one assignment to a field of self._sensors (lines 229-236, 239-255) *)
WriteField ==
    /\ drone.callback = "write"
    /\ LET field == Writes(drone.name)[drone.written + 1]
           last == drone.written + 1 = Len(Writes(drone.name))
           obj == [drone.heap[drone._sensors] EXCEPT
                      ![field] = Converted(field, drone.data)]
       IN  drone' = [drone EXCEPT
                        !.heap[drone._sensors] = obj,
                        !.written = drone.written + 1,
                        !.callback = IF last THEN "acquire" ELSE "write",
                        !.atEnd = IF last THEN obj ELSE drone.atEnd]
    /\ UNCHANGED <<mission, link, raster, queue, reorder, centre>>

(* with self._lock, line 254 *)
CallbackAcquire ==
    /\ drone.callback = "acquire"
    /\ drone._lock = "free"
    /\ drone' = [drone EXCEPT !._lock = "callback", !.callback = "locked"]
    /\ UNCHANGED <<mission, link, raster, queue, reorder, centre>>

(* line 255 and the release of the lock; line 257 only wakes the loop *)
Publish ==
    /\ drone.callback = "locked"
    /\ LET r == replace(drone, drone._sensors)
       IN  drone' = [drone EXCEPT
                        !.heap = r.heap,
                        !._last_sensor_data = r.ref,
                        !.whole[r.ref] = (r.heap[r.ref] = drone.atEnd),
                        !._lock = "free",
                        !.callback = "idle",
                        !.name = "none", !.data = 0, !.written = 0]
    /\ UNCHANGED <<mission, link, raster, queue, reorder, centre>>

(* get_last_sensor_reading(), line 178: with self._lock *)
ReaderAcquire ==
    /\ drone.reader = "idle"
    /\ drone._lock = "free"
    /\ drone' = [drone EXCEPT !._lock = "reader", !.reader = "locked"]
    /\ UNCHANGED <<mission, link, raster, queue, reorder, centre>>

(* line 179: return self._last_sensor_data, releasing the lock *)
ReaderReturn ==
    /\ drone.reader = "locked"
    /\ drone' = [drone EXCEPT
                    !.returned = drone._last_sensor_data,
                    !.seen = drone.heap[drone._last_sensor_data],
                    !._lock = "free",
                    !.reader = "idle"]
    /\ UNCHANGED <<mission, link, raster, queue, reorder, centre>>

----------------------------------------------------------------------------
(* Drone: the connection, drone.py:137-154, 172-175, 204-221.               *)
(* connect() runs in tasks of the event loop; the transport calls          *)
(* _on_connect and _on_connection_failed on its own thread, at any moment  *)
(* once they are registered; what they schedule with call_soon_threadsafe  *)
(* is run by the loop in order.  Attempt a creates future a; 0 is None.    *)

Attempts == 1..MaxAttempts

TransportCallbacks == {"connected", "disconnected", "connection_failed", "connection_lost"}

\* Drone.__init__ line 110, no task started, nothing registered on self.cf
NewLink ==
    [_connection_future |-> 0,
     future |-> [a \in Attempts |-> "none"],  \* none, pending, result, exception, cancelled
     task |-> [a \in Attempts |-> "new"],     \* new, await, or how connect() ended
     callbacks |-> {},                        \* the events of self.cf that carry a callback
     opened |-> 0,                            \* calls of self.cf.open_link
     is_connected |-> FALSE,
     scheduled |-> << >>,                     \* calls handed to call_soon_threadsafe
     transport |-> "idle",                    \* idle, or the callback past its test
     fired |-> 0,                             \* events the transport has raised
     resolutions |-> [a \in Attempts |-> 0],  \* history: set_result/set_exception calls
     error |-> "none"]                        \* history: an exception raised in a callback

Awaiting(l) == {a \in Attempts : l.task[a] = "await"}

Ended(l) == {a \in Attempts : l.task[a] \in {"returned", "ConnectionError", "CancelledError"}}

(* connect(), lines 137-150, up to the await *)
Connect ==
    /\ \E a \in Attempts :
          /\ link.task[a] = "new"
          /\ IF link._connection_future # 0
             THEN link' = [link EXCEPT !.task[a] = "AssertionError"]
             ELSE link' = [link EXCEPT
                              !._connection_future = a,
                              !.future[a] = "pending",
                              !.callbacks = link.callbacks \cup TransportCallbacks,
                              !.opened = link.opened + 1,
                              !.task[a] = "await"]
    /\ UNCHANGED <<mission, drone, raster, queue, reorder, centre>>

\* lines 151-154 without the finally clause
Resume_keeps_future ==
    /\ \E a \in Attempts :
          /\ link.task[a] = "await"
          /\ link.future[a] \notin {"none", "pending"}
          /\ link' = [link EXCEPT
                         !.task[a] = CASE link.future[a] = "result" -> "returned"
                                       [] link.future[a] = "exception" -> "ConnectionError"
                                       [] OTHER -> "CancelledError"]
    /\ UNCHANGED <<mission, drone, raster, queue, reorder, centre>>

(* connect(), lines 151-154: the await ends, finally clears the future *)
Resume ==
    /\ \E a \in Attempts :
          /\ link.task[a] = "await"
          /\ link.future[a] \notin {"none", "pending"}
          /\ link' = [link EXCEPT
                         !._connection_future = 0,
                         !.task[a] = CASE link.future[a] = "result" -> "returned"
                                       [] link.future[a] = "exception" -> "ConnectionError"
                                       [] OTHER -> "CancelledError"]
    /\ UNCHANGED <<mission, drone, raster, queue, reorder, centre>>

(* the awaiting task is cancelled: the future it waits for is cancelled *)
Cancel ==
    /\ \E a \in Attempts :
          /\ link.task[a] = "await"
          /\ link.future[a] = "pending"
          /\ link' = [link EXCEPT !.future[a] = "cancelled"]
    /\ UNCHANGED <<mission, drone, raster, queue, reorder, centre>>

(* disconnect(), lines 172-175 *)
Disconnect ==
    /\ link.is_connected
    /\ link' = [link EXCEPT !.is_connected = FALSE]
    /\ UNCHANGED <<mission, drone, raster, queue, reorder, centre>>

(* the transport raises connected: _on_connect up to its test, lines 204-207 *)
OnConnect ==
    /\ link.transport = "idle"
    /\ "connected" \in link.callbacks
    /\ link.fired < MaxEvents
    /\ link' = [link EXCEPT
                   !.fired = link.fired + 1,
                   !.is_connected = TRUE,
                   !.transport = IF link._connection_future # 0
                                 THEN "set_result" ELSE "idle"]
    /\ UNCHANGED <<mission, drone, raster, queue, reorder, centre>>

(* the transport raises connection_failed: lines 215-218 *)
OnConnectionFailed ==
    /\ link.transport = "idle"
    /\ "connection_failed" \in link.callbacks
    /\ link.fired < MaxEvents
    /\ link' = [link EXCEPT
                   !.fired = link.fired + 1,
                   !.transport = IF link._connection_future # 0
                                 THEN "set_exception" ELSE "idle"]
    /\ UNCHANGED <<mission, drone, raster, queue, reorder, centre>>

(* lines 208-210 and 219-221: self._connection_future is read again *)
Schedule ==
    /\ link.transport # "idle"
    /\ IF link._connection_future = 0
       THEN link' = [link EXCEPT !.transport = "idle", !.error = "AttributeError"]
       ELSE link' = [link EXCEPT
                        !.transport = "idle",
                        !.scheduled = Append(link.scheduled,
                            [call |-> link.transport, future |-> link._connection_future])]
    /\ UNCHANGED <<mission, drone, raster, queue, reorder, centre>>

(* the loop runs a scheduled set_result / set_exception; a future that is *)
(* not pending refuses it with InvalidStateError                           *)
RunScheduled ==
    /\ link.scheduled # << >>
    /\ LET c == Head(link.scheduled)
       IN  link' = [link EXCEPT
                       !.scheduled = Tail(link.scheduled),
                       !.resolutions[c.future] = link.resolutions[c.future] + 1,
                       !.future[c.future] =
                           IF link.future[c.future] # "pending" THEN link.future[c.future]
                           ELSE IF c.call = "set_result" THEN "result" ELSE "exception",
                       !.error = IF link.future[c.future] # "pending"
                                 THEN "InvalidStateError" ELSE link.error]
    /\ UNCHANGED <<mission, drone, raster, queue, reorder, centre>>

----------------------------------------------------------------------------
(* ProbalityMap, drone.py:53-102.  The raster is a function from <<row,     *)
(* column>> to the roughness stored there; positions are centimetres.      *)

\* values of MAP_PX_PER_M (app/config.py is not part of src/)
MapPxPerM == {1, 2}

\* positions navigation.global_position() may report to fill(), inside and
\* outside the mapped area (x from 3.5 m to 5.0 m, y from 0 to 3.0 m)
FillPositions ==
    {<<300, 150>>, <<340, 30>>, <<360, 30>>, <<420, 160>>, <<499, 299>>,
     <<500, 150>>, <<420, 300>>, <<420, -20>>, <<420, -60>>}

\* values of np.sum(np.abs(np.diff(down_hist))), line 62
Roughness == {0, 25, 40}

\* int(): truncation towards zero of n / d, d > 0
Trunc(n, d) == IF n >= 0 THEN n \div d ELSE -((-n) \div d)

\* self.size, line 56: (int(MAP_PX_PER_M * 1.5), int(MAP_PX_PER_M * 3.0))
size(ppm) == <<(ppm * 15) \div 10, ppm * 3>>

Cells(ppm) == (0..(size(ppm)[1] - 1)) \X (0..(size(ppm)[2] - 1))

\* ProbalityMap.__init__, lines 54-57, with the history of the last calls
NewProbalityMap(ppm) ==
    [MAP_PX_PER_M |-> ppm,
     probability_map |-> [c \in Cells(ppm) |-> 0],
     fills |-> 0,                \* calls of fill()
     position |-> <<0, 0>>,      \* history: the position of the last fill()
     roughness |-> 0,            \* history: its roughness
     coords |-> <<0, 0>>,        \* history: the index it used on the raster
     error |-> "none",           \* history: the exception it raised
     found |-> [kind |-> "none", nan |-> FALSE, x |-> 0, y |-> 0]]
                                 \* history: what find_mean_position() returned

\* to_coords(), lines 66-73, map_offset = 3.5
to_coords(ppm, position) ==
    <<Trunc((position[1] - 350) * size(ppm)[1], 150),
      Trunc(position[2] * size(ppm)[2], 300)>>

\* 0 <= row < rows and 0 <= column < columns
InBounds(ppm, coords) == coords \in Cells(ppm)

\* an index of a numpy axis of length n: -n .. -1 count from the end,
\* anything else outside 0 .. n-1 raises IndexError (n stands for that)
AxisIndex(i, n) ==
    IF 0 <= i /\ i < n THEN i ELSE IF -n <= i /\ i < 0 THEN i + n ELSE n

\* the cell probability_map[coords[0], coords[1]] is, or <<rows, columns>>
Cell(ppm, coords) ==
    <<AxisIndex(coords[1], size(ppm)[1]), AxisIndex(coords[2], size(ppm)[2])>>

\* lines 60-64 storing the roughness whatever the cell holds
fill_overwrite(m, position, roughness) ==
    LET coords == to_coords(m.MAP_PX_PER_M, position)
        cell == Cell(m.MAP_PX_PER_M, coords)
    IN  IF cell \notin Cells(m.MAP_PX_PER_M)
        THEN [m EXCEPT !.error = "IndexError"]
        ELSE [m EXCEPT !.probability_map[cell] = roughness, !.error = "none"]

\* fill(), lines 59-64
fill(m, position, roughness) ==
    LET coords == to_coords(m.MAP_PX_PER_M, position)
        cell == Cell(m.MAP_PX_PER_M, coords)
    IN  IF cell \notin Cells(m.MAP_PX_PER_M)
        THEN [m EXCEPT !.error = "IndexError"]
        ELSE [m EXCEPT
                 !.probability_map[cell] =
                     IF roughness >= m.probability_map[cell]
                     THEN roughness ELSE m.probability_map[cell],
                 !.error = "none"]

\* the k-th smallest value of the raster, k from 1
KthSmallest(pm, k) ==
    CHOOSE v \in {pm[c] : c \in DOMAIN pm} :
        /\ Cardinality({c \in DOMAIN pm : pm[c] < v}) < k
        /\ Cardinality({c \in DOMAIN pm : pm[c] <= v}) >= k

\* twice np.median of the raster, line 85
TwiceMedian(pm) ==
    LET n == Cardinality(DOMAIN pm)
    IN  IF n % 2 = 1 THEN 2 * KthSmallest(pm, (n + 1) \div 2)
        ELSE KthSmallest(pm, n \div 2) + KthSmallest(pm, n \div 2 + 1)

\* process_map(), lines 82-89: cells above median + 29 keep their value
process_map(pm) ==
    [c \in DOMAIN pm |-> IF 2 * pm[c] > TwiceMedian(pm) + 58 THEN pm[c] ELSE 0]

RECURSIVE SumOver(_, _, _)
SumOver(map, C, weight) ==
    IF C = {} THEN 0
    ELSE LET c == CHOOSE e \in C : TRUE
         IN  weight[c] * map[c] + SumOver(map, C \ {c}, weight)

\* find_mean_position(), lines 91-102, and to_position(), lines 75-80:
\* the sums are divided by np.sum(map); 0.0 / 0.0 is nan
find_mean_position(m) ==
    LET map == process_map(m.probability_map)
        One == [c \in DOMAIN map |-> 1]
        Row == [c \in DOMAIN map |-> c[1]]
        Column == [c \in DOMAIN map |-> c[2]]
        total == SumOver(map, DOMAIN map, One)
        sum_x == SumOver(map, DOMAIN map, Column)
        sum_y == SumOver(map, DOMAIN map, Row)
    IN  IF total = 0
        THEN [kind |-> "Vec2", nan |-> TRUE, x |-> 0, y |-> 0]
        ELSE [kind |-> "Vec2", nan |-> FALSE,
              x |-> (100 * sum_y + 50 * total) \div (m.MAP_PX_PER_M * total) + 350,
              y |-> (100 * sum_x + 50 * total) \div (m.MAP_PX_PER_M * total)]

(* fill() is called with the position and the roughness of the moment *)
Fill ==
    /\ raster.fills < MaxFills
    /\ \E position \in FillPositions, roughness \in Roughness :
          raster' = [fill(raster, position, roughness) EXCEPT
                        !.fills = raster.fills + 1,
                        !.position = position,
                        !.roughness = roughness,
                        !.coords = to_coords(raster.MAP_PX_PER_M, position)]
    /\ UNCHANGED <<mission, drone, link, queue, reorder, centre>>

(* find_mean_position() is called *)
FindMeanPosition ==
    /\ raster' = [raster EXCEPT !.found = find_mean_position(raster)]
    /\ UNCHANGED <<mission, drone, link, queue, reorder, centre>>

----------------------------------------------------------------------------
(* The waypoint queue, flight_ctl.py:65-96.  fctx.path is None or a list   *)
(* of positions; lines 98-122 compute the command from the reading and     *)
(* change nothing of the context.                                          *)

\* positions [navigation.to_position(c) for c in path] may hold
Waypoints == {<<100, 100>>, <<105, 100>>, <<200, 100>>}

\* what nav.compute_path() may answer as positions: lists without repetition
PlannedPaths ==
    {q \in UNION {[1..n -> Waypoints] : n \in 0..MaxPath} :
        \A i, j \in 1..Len(q) : i # j => q[i] # q[j]}

\* readings of the position between two ticks
QueuePositions == {<<100, 100>>, <<200, 100>>, <<300, 300>>}

\* the context as constructed: no path yet
\* the names flight_ctl.py binds from app/config.py, lines 7-14
ConfigNames ==
    {"ANGULAR_SCAN_VELOCITY_DEG", "ANGULAR_VELOCITY_LIMIT_DEG", "MAX_SLOPE",
     "VELOCITY_LIMIT", "PAD_HEIGHT", "VERTICAL_VELOCITY_LIMIT"}

\* va of mctl.start_linear_motion(v.x, v.y, vz, va), line 122: "none" when no
\* command was sent, the name of the constant that gives the rate, or
\* "clip" for the clamped orientation error
NoCommand == [va |-> "none", error |-> "none"]
YawRate(va) == [va |-> va, error |-> "none"]

\* the value of a global name, or the NameError of an unbound one
Global(name) ==
    IF name \in ConfigNames THEN YawRate(name) ELSE [va |-> "none", error |-> "NameError"]

\* lines 108-115 and 122
yaw_rate(f) ==
    LET va == Global("ANGULAR_SCAN_VELOCITY_")
    IN  IF va.error # "none" THEN va
        ELSE IF ~f.scan THEN YawRate("clip")
        ELSE va

NewQueue ==
    [path |-> << >>,
     path_is_none |-> TRUE,
     debug_tick |-> FALSE,     \* history: ctx.debug_tick of the last tick
     ticks |-> 0,              \* history: ticks so far, up to MaxTicks
     popped |-> {},            \* history: the waypoints pop(0) has removed
     pops |-> 0,               \* history: the pops of the last tick
     last_pops |-> << >>,      \* history: the waypoints the last tick popped
     entry_path |-> << >>,     \* history: the queue the last tick's loop found
     error |-> "none",         \* history: the exception the last tick's loop raised
     command |-> NoCommand]    \* history: the yaw rate of the last command sent

\* fctx.is_near_next_waypoint(): the queue has a head and the reading is
\* within the tolerance of it
is_near_next_waypoint(q, s, c) ==
    /\ ~q.path_is_none
    /\ q.path # << >>
    /\ is_near_position(s, q.path[1], c.POSITION_ERROR)

\* self._fctx.path.pop(0), line 89
pop0(q) ==
    IF q.path_is_none THEN [q EXCEPT !.error = "AttributeError"]
    ELSE IF q.path = << >> THEN [q EXCEPT !.error = "IndexError"]
    ELSE [q EXCEPT !.path = Tail(q.path),
                   !.popped = q.popped \cup {Head(q.path)},
                   !.last_pops = Append(q.last_pops, Head(q.path)),
                   !.pops = q.pops + 1]

\* lines 84-89 putting the popped waypoint back at the end of the queue
consume_requeue(q, s, c) ==
    IF is_near_next_waypoint(q, s, c) /\ ~q.path_is_none
    THEN [pop0(q) EXCEPT !.path = Append(Tail(q.path), Head(q.path))]
    ELSE q

\* lines 84-89 without the test of line 85: pop(0) as long as there is a path
consume_untested(q, s, c) ==
    IF q.path_is_none THEN q
    ELSE [q EXCEPT !.path = << >>,
                   !.popped = q.popped \cup Range(q.path),
                   !.last_pops = q.path,
                   !.pops = Len(q.path),
                   !.error = "IndexError"]

\* the while loop of lines 84-89: pop(0) as long as the three tests hold
RECURSIVE consume(_, _, _)
consume(q, s, c) ==
    IF is_near_next_waypoint(q, s, c) /\ ~q.path_is_none /\ Len(q.path) >= 0
    THEN LET r == pop0(q)
         IN  IF r.error # "none" THEN r ELSE consume(r, s, c)
    ELSE q

\* lines 76-82: on a debug tick the path is what the planner answers
replan(q, debug_tick, planned, planned_none) ==
    IF ~debug_tick THEN q
    ELSE IF planned_none THEN [q EXCEPT !.path = << >>, !.path_is_none = TRUE]
    ELSE [q EXCEPT !.path = planned, !.path_is_none = FALSE]

(* the control loop stores a reading without advancing the mission *)
Reading ==
    /\ \E p \in QueuePositions : sensors' = [x |-> p[1], y |-> p[2], z |-> 0]
    /\ UNCHANGED <<config, occupied, fctx, vec, state, z_hist, pc, ret, result,
                   depth, err, entry, startCalls, nextCalled, byTransition,
                   targeted>>
    /\ UNCHANGED others

(* apply_flight_command(), lines 65-122: the planner runs on the ticks of   *)
(* DebugTicks and answers a path of Planned, or None if PlannedNone allows; *)
(* a tick whose loop raised sends no command.                               *)
FlightCommandWith(DebugTicks, Planned, PlannedNone) ==
    /\ queue.ticks < MaxTicks
    /\ pc = "idle"
    /\ err = "none"
    /\ \E debug_tick \in DebugTicks, planned \in Planned,
          planned_none \in PlannedNone :
          LET q == [queue EXCEPT !.debug_tick = debug_tick,
                                 !.ticks = queue.ticks + 1,
                                 !.pops = 0,
                                 !.last_pops = << >>,
                                 !.error = "none",
                                 !.command = NoCommand]
              r == replan(q, debug_tick, planned, planned_none)
              w == consume([r EXCEPT !.entry_path = r.path], sensors, config)
          IN  queue' = IF w.error # "none" THEN w
                       ELSE [w EXCEPT !.command = yaw_rate(fctx)]

ApplyFlightCommand ==
    /\ FlightCommandWith(BOOLEAN, PlannedPaths, BOOLEAN)
    /\ UNCHANGED <<mission, drone, link, raster, reorder, centre>>

----------------------------------------------------------------------------
(* The reordering loop of compute_target_map, flight_states.py:271-306,     *)
(* one iteration at a time on any list of candidates.                      *)

\* candidates: four within 1.5 m of each other, two far from everything
CandidatePoints ==
    {<<400, 50>>, <<450, 50>>, <<400, 100>>, <<450, 100>>, <<100, 250>>, <<900, 250>>}

CandidateLists == UNION {[1..n -> CandidatePoints] : n \in 0..MaxPoints}

\* the list a loop is given, with the history of the loop: origin[k] is the
\* place points[k] had in the input, examined the places of the given_points
NewReorder(L) ==
    [input |-> L,
     points |-> L,
     id |-> 0,
     nb |-> 0,
     origin |-> [k \in 1..Len(L) |-> k],
     examined |-> << >>]

(* one iteration of the while loop, lines 277-289 and 293-306 *)
ExamineNext ==
    /\ reorder.nb < Len(reorder.points)
    /\ LET given_point == reorder.points[reorder.id + 1]
           place == reorder.origin[reorder.id + 1]
       IN  IF IsDeferred(reorder.points, given_point)
           THEN reorder' = [reorder EXCEPT
                    !.points = MoveToEnd(reorder.points, given_point),
                    !.origin = Append(
                        RemoveAt(reorder.origin, FirstIndex(reorder.points, given_point)),
                        reorder.origin[FirstIndex(reorder.points, given_point)]),
                    !.nb = reorder.nb + 1,
                    !.examined = Append(reorder.examined, place)]
           ELSE reorder' = [reorder EXCEPT
                    !.id = reorder.id + 1,
                    !.nb = reorder.nb + 1,
                    !.examined = Append(reorder.examined, place)]
    /\ UNCHANGED <<mission, drone, link, raster, queue, centre>>

----------------------------------------------------------------------------
(* TargetCentering.centering, flight_states.py:349-419, on a centering      *)
(* object of its own.  Lengths are centimetres: 0.22 m = 22, 0.05 m = 5.   *)

\* TargetCentering.__init__, lines 334-335
axe_X == 0
axe_Y == 1
\* line 361
lateral_movement == 22
\* np.abs(... - pt) < 0.05, lines 391, 398, 408, 415
ProbeTolerance == 5
\* self.change_axe >= 2, line 366
ProbesPerAxis == 2
\* self.reseatch_counter >= 5, line 376
StuckAfter == 5
\* an integer attribute nothing has assigned yet
Unset == -1

\* where the vehicle is during a centering() call or an edge crossing
CenteringPositions == {<<78, 78>>, <<100, 100>>, <<120, 120>>}

\* what a centering() call gave: nothing yet, an exception, None, or the
\* tuple (commande, found, stuck)
NotCalled == [kind |-> "none", found |-> FALSE, stuck |-> FALSE]
Raised == [kind |-> "raise", found |-> FALSE, stuck |-> FALSE]
ReturnedNone == [kind |-> "None", found |-> FALSE, stuck |-> FALSE]
ReturnedTuple(found, stuck) == [kind |-> "tuple", found |-> found, stuck |-> stuck]

(* The object centering() works on.  __init__ (lines 329-335) assigns none  *)
(* of the attributes centering() reads; the estimate as the specification  *)
(* describes it starts with no axis found and its counters at zero.        *)
NewCentering(initialised) ==
    [platform_x_found |-> IF initialised THEN "false" ELSE "unset",
     platform_y_found |-> IF initialised THEN "false" ELSE "unset",
     touch_down |-> IF initialised THEN Val(<<100, 100>>) ELSE None,
     change_axe |-> IF initialised THEN 0 ELSE Unset,
     research_axe |-> IF initialised THEN axe_X ELSE Unset,
     reseatch_counter |-> IF initialised THEN 0 ELSE Unset,
     research_state |-> IF initialised THEN 0 ELSE Unset,
     returned |-> NotCalled,     \* history: what the last centering() gave
     error |-> "none",           \* history: the exception that ended the search
     crossing |-> "none",        \* history: octant of the crossing of the last step
     position |-> <<0, 0>>,      \* history: where that crossing happened
     probes |-> 0,               \* history: high-side targets reached since the
                                 \* last switch or Front/Back/Left/Right crossing
     switches |-> 0]             \* history: axis switches centering() has made

\* directions of motion at a crossing: one in each octant, on its boundary
CrossingDirections == {-14, -10, -6, -2, 2, 6, 10, 14}

NoCrossing == [event |-> FALSE, theta |-> 0, position |-> <<0, 0>>]
CrossingAt(theta, position) == [event |-> TRUE, theta |-> theta, position |-> position]

\* self.platform_detection(data), line 363: on a discontinuity of the
\* downward range it reports the crossing to update_platform_pos
platform_detection(c, crossing) ==
    IF crossing.event THEN update_platform_pos(c, crossing.theta, crossing.position)
    ELSE Crossed(c, "none")

\* lines 366-373 switching after a single probe
switch_axis_early(c) ==
    IF c.change_axe = Unset THEN Crossed(c, "AttributeError")
    ELSE IF c.change_axe < 1 THEN Crossed(c, "none")
    ELSE Crossed([c EXCEPT !.research_axe = IF @ = axe_X THEN axe_Y ELSE axe_X,
                           !.change_axe = 0,
                           !.reseatch_counter = @ + 1], "none")

\* lines 366-373
switch_axis(c) ==
    IF c.change_axe = Unset THEN Crossed(c, "AttributeError")
    ELSE IF c.change_axe < ProbesPerAxis THEN Crossed(c, "none")
    ELSE IF c.research_axe = Unset THEN Crossed(c, "AttributeError")
    ELSE LET switched == [c EXCEPT !.research_axe = IF @ = axe_X THEN axe_Y ELSE axe_X,
                                   !.change_axe = 0]
         IN  IF c.reseatch_counter = Unset THEN Crossed(switched, "AttributeError")
             ELSE Crossed([switched EXCEPT !.reseatch_counter = @ + 1], "none")

Centered(st, returned, e) == [st |-> st, returned |-> returned, e |-> e]

\* lines 388-402 (axe_X) and 405-419 (axe_Y): i is the index of the axis
probe(c, i, data, stuck) ==
    IF c.research_state = Unset \/ c.touch_down.tag = "none"
    THEN Centered(c, Raised, "AttributeError")
    ELSE LET touch_down == <<c.touch_down.x, c.touch_down.y>>
             pt == IF c.research_state = 0 THEN touch_down[i + 1] + lateral_movement
                   ELSE touch_down[i + 1] - lateral_movement
             near == Abs(data[i + 1] - pt) < ProbeTolerance
         IN  Centered(IF ~near THEN c
                      ELSE IF c.research_state = 0
                      THEN [c EXCEPT !.change_axe = @ + 1, !.research_state = 1]
                      ELSE [c EXCEPT !.research_state = 0],
                      ReturnedTuple(FALSE, stuck), "none")

\* centering(), lines 349-419; data is <<x_global, y_global>>
centering(c, crossing, data) ==
    LET d == platform_detection(c, crossing)
        s == IF d.e # "none" THEN d ELSE switch_axis(d.st)
        o == s.st
    IN  IF s.e # "none" THEN Centered(o, Raised, s.e)
        ELSE IF o.reseatch_counter = Unset THEN Centered(o, Raised, "AttributeError")
        ELSE LET stuck == o.reseatch_counter >= StuckAfter
             IN  IF o.platform_x_found = "unset" THEN Centered(o, Raised, "AttributeError")
                 ELSE IF o.platform_x_found = "true" /\ o.platform_y_found = "unset"
                 THEN Centered(o, Raised, "AttributeError")
                 ELSE IF o.platform_x_found = "true" /\ o.platform_y_found = "true"
                 THEN Centered(o, ReturnedTuple(TRUE, stuck), "none")
                 ELSE IF o.research_axe = Unset THEN Centered(o, Raised, "AttributeError")
                 ELSE IF o.research_axe = axe_X THEN probe(o, axe_X, data, stuck)
                 ELSE IF o.research_axe = axe_Y THEN probe(o, axe_Y, data, stuck)
                 ELSE Centered(o, ReturnedNone, "none")

EdgeOctants == {"Front", "Back", "Left", "Right"}

\* the octant of a crossing, "none" without one
CrossingOctant(crossing) == IF crossing.event THEN Octant(-crossing.theta) ELSE "none"

(* A control tick calls centering() with the reading of the moment; the     *)
(* range may or may not show an edge on that tick.                          *)
Centering ==
    /\ centre.error = "none"
    /\ centre.reseatch_counter < MaxSwitches
    /\ \E data \in CenteringPositions :
       \E crossing \in {NoCrossing} \cup {CrossingAt(theta, data) : theta \in CrossingDirections} :
          LET d == platform_detection(centre, crossing)
              r == centering(centre, crossing, data)
              switched == r.st.research_axe # d.st.research_axe
              reached == d.st.research_state = 0 /\ r.st.research_state = 1
              kept == IF CrossingOctant(crossing) \in EdgeOctants \/ switched
                      THEN 0 ELSE centre.probes
          IN  centre' = [r.st EXCEPT
                            !.returned = r.returned,
                            !.error = r.e,
                            !.crossing = CrossingOctant(crossing),
                            !.position = crossing.position,
                            !.probes = IF reached THEN kept + 1 ELSE kept,
                            !.switches = IF switched THEN @ + 1 ELSE @]
    /\ UNCHANGED <<mission, drone, link, raster, queue, reorder>>

(* An edge crossing reported to update_platform_pos between two calls *)
CrossEdge ==
    /\ centre.error = "none"
    /\ \E theta \in CrossingDirections, position \in CenteringPositions :
          LET r == update_platform_pos(centre, theta, position)
          IN  centre' = [r.st EXCEPT
                            !.error = r.e,
                            !.crossing = Octant(-theta),
                            !.position = position,
                            !.probes = IF Octant(-theta) \in EdgeOctants THEN 0 ELSE @]
    /\ UNCHANGED <<mission, drone, link, raster, queue, reorder>>

----------------------------------------------------------------------------
(* Initial states *)

Configs ==
    [ALTITUDE_ERROR : AltitudeErrors, POSITION_ERROR : PositionErrors,
     INITIAL_POSITION : InitialPositions, MAX_SLOPE : MaxSlopes]

\* Sensors(): every field 0 until the first reading
NewSensors == [x |-> 0, y |-> 0, z |-> 0]

NewVec == [n \in 1..3 |-> <<0, 0>>]

\* the vehicle interface and the planning helpers as constructed
OthersAtRest ==
    /\ drone = NewDrone
    /\ link = NewLink
    /\ raster = NewProbalityMap(2)
    /\ queue = NewQueue
    /\ reorder = NewReorder(<< >>)
    /\ centre = NewCentering(FALSE)

(* FlightController.__init__ (flight_ctl.py:25-33): the mission starts in Boot *)
MissionBoot ==
    /\ config \in Configs
    /\ sensors = NewSensors
    /\ occupied = {}
    /\ \E pd \in BOOLEAN : fctx = NewFlightContext(pd)
    /\ vec = NewVec
    /\ state = NewState("Boot")
    /\ z_hist = <<0, 0, 0>>
    /\ pc = "idle"
    /\ ret = NoState
    /\ result = "pending"
    /\ depth = 0
    /\ err = "none"
    /\ entry = "Boot"
    /\ startCalls = 0
    /\ nextCalled = FALSE
    /\ byTransition = FALSE
    /\ targeted = << >>

Init == MissionBoot /\ OthersAtRest

(* The controller at the moment the driver has installed a fresh instance  *)
(* of any State class on a fresh context (line 58) and is about to call    *)
(* its start(); Boot is the constructor's state and is never started.      *)
InitAny ==
    /\ OthersAtRest
    /\ config \in Configs
    /\ sensors = NewSensors
    /\ occupied \in OccupancyMaps
    /\ fctx = NewFlightContext(FALSE)
    /\ vec = NewVec
    /\ z_hist = <<0, 0, 0>>
    /\ ret = NoState
    /\ result = "pending"
    /\ depth = 0
    /\ err = "none"
    /\ startCalls = 0
    /\ nextCalled = FALSE
    /\ targeted = << >>
    /\ \E k \in StateKinds :
          /\ entry = k
          /\ state = NewState(k)
          /\ pc = IF k = "Boot" THEN "idle" ELSE "start"
          /\ byTransition = (k # "Boot")

(* Under the protocol neither the tolerances nor the candidates decide   *)
(* anything: one configuration, the free and the fully covered map.      *)
InitProtocol ==
    /\ InitAny
    /\ config.ALTITUDE_ERROR = 5
    /\ config.POSITION_ERROR = 10
    /\ occupied \in {{}, AllPoints}

(* The finest altitude grid, without pad detection *)
InitFine == Init /\ ~fctx.pad_detection

TickFine == TickWith({<<100, 100>>, <<200, 100>>}, 0..MaxAltitude)

\* under the protocol the reading decides nothing: one position, two altitudes
TickProtocol == TickWith({<<100, 100>>}, {10, 50})

Next == Tick \/ Update \/ CallNext \/ Decide \/ CallStart
NextFine == TickFine \/ Update \/ CallNext \/ Decide \/ CallStart
NextAny == Tick \/ Update \/ CallNext \/ Decide \/ CallStart \/ EdgeCrossing
NextProtocol == TickProtocol \/ Update \/ ProtocolNext \/ Decide \/ CallStart

NextTelemetry ==
    SensorData \/ WriteField \/ CallbackAcquire \/ Publish \/ ReaderAcquire
        \/ ReaderReturn

NextConnection ==
    Connect \/ Resume \/ Cancel \/ Disconnect \/ OnConnect \/ OnConnectionFailed
        \/ Schedule \/ RunScheduled

NextRaster == Fill \/ FindMeanPosition

NextQueue == Reading \/ ApplyFlightCommand

NextReorder == ExamineNext

\* the mission with a command after any tick; the planner is not run
DirectFlightCommand ==
    /\ FlightCommandWith({FALSE}, {<< >>}, {TRUE})
    /\ UNCHANGED <<mission, drone, link, raster, reorder, centre>>

NextCommand == Tick \/ Update \/ CallNext \/ Decide \/ CallStart \/ DirectFlightCommand

Spec == Init /\ [][Next]_vars
SpecFine == InitFine /\ [][NextFine]_vars
SpecAny == InitAny /\ [][NextAny]_vars
SpecProtocol == InitProtocol /\ [][NextProtocol]_vars

\* the mission at rest in its first state, one configuration
MissionAtRest ==
    /\ MissionBoot
    /\ ~fctx.pad_detection
    /\ config.ALTITUDE_ERROR = 5
    /\ config.POSITION_ERROR = 10

InitDrone == MissionAtRest /\ OthersAtRest

SpecTelemetry == InitDrone /\ [][NextTelemetry]_vars
SpecConnection == InitDrone /\ [][NextConnection]_vars

\* a new ProbalityMap of any resolution
InitRaster ==
    /\ MissionAtRest
    /\ drone = NewDrone
    /\ link = NewLink
    /\ queue = NewQueue
    /\ reorder = NewReorder(<< >>)
    /\ centre = NewCentering(FALSE)
    /\ \E ppm \in MapPxPerM : raster = NewProbalityMap(ppm)

SpecRaster == InitRaster /\ [][NextRaster]_vars
SpecQueue == InitDrone /\ [][NextQueue]_vars
SpecCommand == InitDrone /\ [][NextCommand]_vars

\* a reordering loop about to start on any list of candidates
InitReorder ==
    /\ MissionAtRest
    /\ drone = NewDrone
    /\ link = NewLink
    /\ raster = NewProbalityMap(2)
    /\ queue = NewQueue
    /\ centre = NewCentering(FALSE)
    /\ \E L \in CandidateLists : reorder = NewReorder(L)

SpecReorder == InitReorder /\ [][NextReorder]_vars

NextCentering == Centering \/ CrossEdge

\* a centering object as __init__ leaves it, or with its estimate initialised
InitCentering ==
    /\ MissionAtRest
    /\ drone = NewDrone
    /\ link = NewLink
    /\ raster = NewProbalityMap(2)
    /\ queue = NewQueue
    /\ reorder = NewReorder(<< >>)
    /\ \E initialised \in BOOLEAN : centre = NewCentering(initialised)

SpecCentering == InitCentering /\ [][NextCentering]_vars

----------------------------------------------------------------------------
(* Properties *)

\* next() returned an instance of the current state's own class, which is
\* not TargetSearch
SameKindReturned ==
    /\ pc = "decide"
    /\ ret # NoState
    /\ ret.kind = state.kind
    /\ state.kind # "TargetSearch"

\* C1: when next() returns a state of the current state's class (any class
\* but TargetSearch), the driver returns True, does not install the returned
\* state and does not call its start().
C1_SameKindTerminates ==
    [][SameKindReturned =>
          /\ result' = "True"
          /\ pc' = "idle"
          /\ state' = state
          /\ startCalls' = startCalls]_vars

\* no entry of a sequence of numbers is followed by a smaller or equal one
StrictlyIncreasing(q) == \A i, j \in 1..Len(q) : i < j => q[i] < q[j]

\* C2: when TargetSearch with index i is near candidate i, the tick does not
\* abort, the TargetSearch installed carries index i + 1 (at the driver's
\* decision the old instance already holds i + 1), its start() targets
\* candidate i + 1 when there is one, and the targeted indices strictly increase.
C2_IndexAdvances ==
    [][/\ (pc = "decide" /\ state.kind = "TargetSearch" /\ ret.kind = "TargetSearch")
            => /\ pc' = "start"
               /\ state'.kind = "TargetSearch"
               /\ state'.index = state.index
       /\ (pc = "start" /\ state.kind = "TargetSearch" /\ byTransition
              /\ state.index < Len(compute_target_map(occupied)))
            => /\ err' = "none"
               /\ fctx'.trajectory.position
                      = Val(compute_target_map(occupied)[state.index + 1])
               /\ StrictlyIncreasing(targeted')]_vars

NoDuplicates(q) == \A i, j \in 1..Len(q) : i # j => q[i] # q[j]

\* C3: a mission that starts in TargetSearch, with any candidate list of
\* compute_target_map (the empty one included), raises no error, targets no
\* candidate twice and targets at most as many candidates as the list holds.
C3_SearchExhausts ==
    entry = "TargetSearch" =>
        /\ err = "none"
        /\ NoDuplicates(targeted)
        /\ Len(targeted) <= Len(compute_target_map(occupied))

\* the position GoForward flies to: x = 2.0 on the configured initial position
ForwardTarget == <<GoForwardX, config.INITIAL_POSITION[2]>>

\* C4: from Boot the current state only changes along Boot, Takeoff,
\* GoForward, ReturnHome, GoLower, Stop, and each step past Takeoff is taken
\* on a reading within tolerance of that step's target.
C4_MissionOrder ==
    [][state'.kind # state.kind =>
          \/ state.kind = "Boot" /\ state'.kind = "Takeoff"
          \/ /\ state.kind = "Takeoff" /\ state'.kind = "GoForward"
             /\ is_near_altitude(sensors, TakeoffAltitude, config.ALTITUDE_ERROR)
          \/ /\ state.kind = "GoForward" /\ state'.kind = "ReturnHome"
             /\ is_near_position(sensors, ForwardTarget, config.POSITION_ERROR)
          \/ /\ state.kind = "ReturnHome" /\ state'.kind = "GoLower"
             /\ fctx.home_pad # None
             /\ is_near_position(sensors, Deref(fctx.home_pad, vec), config.POSITION_ERROR)
          \/ /\ state.kind = "GoLower" /\ state'.kind = "Stop"
             /\ is_near_altitude(sensors, GoLowerAltitude, config.ALTITUDE_ERROR)]_vars

\* the mission has gone from Boot all the way to Stop
C4_Witness == entry = "Boot" /\ state.kind = "Stop" /\ byTransition

\* C5: once the current state is Stop it stays Stop, and an update() that
\* returns returns True exactly when the state it ends in is Stop.
C5_StopTerminal ==
    [][/\ state.kind = "Stop" => state'.kind = "Stop"
       /\ (pc # "idle" /\ pc' = "idle" /\ err' = "none")
            => result' = Bool(state'.kind = "Stop")]_vars

\* a tick that began in Stop has returned True
C5_Witness ==
    pc = "idle" /\ state.kind = "Stop" /\ depth = 1 /\ nextCalled /\ result = "True"

\* Takeoff.next() is called with target altitude 0.5 and tolerance 0.05
TakeoffAsked ==
    /\ pc = "next"
    /\ state.kind = "Takeoff"
    /\ fctx.trajectory.altitude = 50
    /\ config.ALTITUDE_ERROR = 5

\* C6 as claimed: none for 0.00 .. 0.44, GoForward for 0.46 .. 0.55
C6_TakeoffGrid ==
    [][TakeoffAsked =>
          /\ sensors.z \in 0..44 => ret' = NoState
          /\ sensors.z \in 46..55 => ret'.kind = "GoForward"]_vars

\* C6 amended: none for 0.00 .. 0.44 and for 0.55, GoForward for 0.46 .. 0.54
C6_TakeoffGridAmended ==
    [][TakeoffAsked =>
          /\ sensors.z \in (0..44) \cup {55} => ret' = NoState
          /\ sensors.z \in 46..54 => ret'.kind = "GoForward"]_vars

\* Takeoff.next() has returned none at 0.55 m
C6_Witness ==
    /\ pc = "decide"
    /\ state.kind = "Takeoff"
    /\ config.ALTITUDE_ERROR = 5
    /\ sensors.z = 55
    /\ ret = NoState

\* C7: a state installed by a transition is started exactly once, before its
\* next() is first called, and is not started again while it is current.
C7_StartOnce ==
    byTransition =>
        /\ pc = "start" => startCalls = 0 /\ ~nextCalled
        /\ pc # "start" => startCalls = 1
        /\ nextCalled => startCalls = 1

\* the third state of a chain of transitions inside one update() has been
\* started and asked for its successor
C7_Witness == byTransition /\ depth >= 3 /\ startCalls = 1 /\ nextCalled

\* a call of next() leaves the context, the Vec2 objects it refers to and the
\* instance as they were
NextChangesNothing == fctx' = fctx /\ vec' = vec /\ state' = state

\* C8 as claimed: no call of next() changes the context or the instance.
C8_NextPure == [][pc = "next" => NextChangesNothing]_vars

\* C8 amended: a call of next() that returns none changes nothing, and the
\* next() of Takeoff, GoForward, GoLower, ReturnHome and Stop changes nothing
\* when it returns a successor either; Boot.next records home_pad and the
\* initial target, Scan.next clears scan and TargetSearch.next advances its
\* own index on the call that returns a successor.
C8_NextPureAmended ==
    [][pc = "next" =>
          /\ (\/ ret' = NoState
              \/ state.kind \in {"Takeoff", "GoForward", "GoLower", "ReturnHome", "Stop"})
                => NextChangesNothing
          /\ state.kind = "Boot"
                => /\ fctx'.home_pad = VecRef(2)
                   /\ vec'[2] = <<sensors.x, sensors.y>>
                   /\ Deref(fctx'.trajectory.position, vec') = config.INITIAL_POSITION
          /\ (state.kind = "Scan" /\ ret' # NoState) => ~fctx'.scan
          /\ (state.kind = "TargetSearch" /\ ret'.kind = "TargetSearch")
                => state'.index = state.index + 1]_vars

\* a next() that returned a successor without changing anything
C8_Witness == pc = "decide" /\ state.kind = "ReturnHome" /\ ret.kind = "GoLower"

\* C9: after next() returned a state of the current state's own class, the
\* controller's state is Stop.
C9_InvalidForcesStop == [][SameKindReturned => state'.kind = "Stop"]_vars

\* C10: once an edge crossing has marked an axis as found, the next call of
\* TargetCentering.next() returns GoLower and target_pad is the touch_down estimate.
C10_CenteringDescends ==
    [][(/\ pc = "next"
        /\ state.kind = "TargetCentering"
        /\ (state.platform_x_found = "true" \/ state.platform_y_found = "true"))
          => /\ ret'.kind = "GoLower"
             /\ fctx'.target_pad = state.touch_down]_vars

\* C11: every snapshot get_last_sensor_reading() has returned is whole (it
\* was copied from the working state as a callback had left it, or is the
\* initial default) and still has the fields it had when it was returned.
C11_SnapshotWhole ==
    drone.returned # 0 =>
        /\ drone.whole[drone.returned]
        /\ drone.heap[drone.returned] = drone.seen

\* a snapshot is held while a callback has written part of its batch over
\* a different working state
C11_Witness ==
    /\ drone.returned # 0
    /\ drone.callback = "write"
    /\ drone.written > 0
    /\ drone.heap[drone._sensors] # drone.atEnd
    /\ drone.seen # DefaultSensors

\* C12: the future of a connect() attempt receives at most one resolution
\* (set_result or set_exception), whatever the transport raises and whenever.
C12_ResolvedOnce == \A a \in Attempts : link.resolutions[a] <= 1

\* C13: a connect() called while another attempt awaits ends in
\* AssertionError and leaves the future, the callbacks and the link as they
\* were; when an await ends the future is cleared; a connect() called while
\* no attempt awaits is accepted.
C13_RejectedThenAccepted ==
    [][ /\ \A a \in Attempts :
             link.task[a] = "new" /\ link'.task[a] # "new" =>
                 IF Awaiting(link) # {}
                 THEN /\ link'.task[a] = "AssertionError"
                      /\ link'._connection_future = link._connection_future
                      /\ link'.future = link.future
                      /\ link'.callbacks = link.callbacks
                      /\ link'.opened = link.opened
                 ELSE /\ link'.task[a] = "await"
                      /\ link'._connection_future = a
                      /\ link'.opened = link.opened + 1
        /\ \A a \in Attempts :
             link.task[a] = "await" /\ link'.task[a] # "await" =>
                 link'._connection_future = 0
      ]_vars

\* an attempt was rejected, the earlier one ended, a later one is accepted
C13_Witness ==
    /\ \E a \in Attempts : link.task[a] = "AssertionError"
    /\ Ended(link) # {}
    /\ Awaiting(link) # {}

\* C14: once every connect() await has ended, none of the callbacks the
\* attempts registered on the transport is still registered.
C14_CallbacksRemoved ==
    Ended(link) # {} /\ Awaiting(link) = {} => link.callbacks = {}

\* C15: a fill() lowers no cell of the raster and changes no cell but the
\* one its position indexes, which it sets to the greater of what the cell
\* held and the roughness.
C15_FillMonotone ==
    [][ raster'.fills # raster.fills =>
          LET cell == Cell(raster.MAP_PX_PER_M, raster'.coords)
          IN  /\ \A c \in Cells(raster.MAP_PX_PER_M) :
                    /\ raster'.probability_map[c] >= raster.probability_map[c]
                    /\ c # cell =>
                          raster'.probability_map[c] = raster.probability_map[c]
              /\ cell \in Cells(raster.MAP_PX_PER_M) =>
                    /\ raster'.probability_map[cell] >= raster'.roughness
                    /\ raster'.probability_map[cell]
                           \in {raster.probability_map[cell], raster'.roughness}
      ]_vars

\* a fill() has brought less than the cell held and the cell has kept its value
C15_Witness ==
    /\ raster.fills > 1
    /\ raster.error = "none"
    /\ raster.probability_map[Cell(raster.MAP_PX_PER_M, raster.coords)] > raster.roughness

\* C16: the index fill() uses on the raster is within its bounds
\* (0 <= row < rows, 0 <= column < columns) for every position.
C16_IndexInBounds ==
    raster.fills > 0 => InBounds(raster.MAP_PX_PER_M, raster.coords)

\* C17: when no cell survives the threshold, find_mean_position() reports
\* a no-detection outcome, not a position.
C17_NoDetectionReported ==
    /\ raster.found.kind # "none"
    /\ \A c \in Cells(raster.MAP_PX_PER_M) : process_map(raster.probability_map)[c] = 0
    => raster.found.kind # "Vec2"

\* the length of the pending queue; no path counts as an empty queue
QueueLength(q) == IF q.path_is_none THEN 0 ELSE Len(q.path)

IsSuffix(a, b) ==
    Len(a) <= Len(b) /\ a = SubSeq(b, Len(b) - Len(a) + 1, Len(b))

\* C18: from one apply_flight_command() tick to the next a pending queue
\* does not get longer, and no waypoint that was popped is in the queue.
C18_QueueNeverGrows ==
    [][ queue'.ticks # queue.ticks /\ ~queue.path_is_none =>
          /\ QueueLength(queue') <= QueueLength(queue)
          /\ ~queue'.path_is_none =>
                \A w \in queue.popped : w \notin Range(queue'.path)
      ]_vars

\* C18 amended: a tick on which the path is not recomputed (ctx.debug_tick
\* unset) leaves a suffix of the queue it found, or no path if there was none.
C18_QueueShrinksBetweenPlans ==
    [][ queue'.ticks # queue.ticks /\ ~queue'.debug_tick =>
          /\ queue'.path_is_none = queue.path_is_none
          /\ IsSuffix(queue'.path, queue.path)
          /\ \A w \in queue.popped : w \in queue'.popped
      ]_vars

\* a tick without replanning has popped two waypoints and left one
C18_Witness ==
    /\ ~queue.debug_tick
    /\ queue.ticks > 1
    /\ queue.pops = 2
    /\ ~queue.path_is_none
    /\ Len(queue.path) = 1
    /\ queue.path[1] \notin queue.popped

\* the loop has ended
Reordered == reorder.nb >= Len(reorder.points)

\* C19: the reordered list is the input's non-deferred points in their
\* input order followed by its deferred points, a permutation of the input,
\* and the loop has examined every place of the input exactly once.
C19_StablePartition ==
    Reordered =>
        /\ reorder.points =
              SelectSeq(reorder.input, LAMBDA p : ~IsDeferred(reorder.input, p))
                 \o SelectSeq(reorder.input, LAMBDA p : IsDeferred(reorder.input, p))
        /\ \A k \in 1..Len(reorder.input) :
              /\ reorder.points[k] = reorder.input[reorder.origin[k]]
              /\ Cardinality({e \in 1..Len(reorder.examined) : reorder.examined[e] = k}) = 1
        /\ Len(reorder.examined) = Len(reorder.input)
        /\ reorder.points = MoveIsolated(reorder.input, 0, 0)

\* a list with deferred points before non-deferred ones has been reordered
C19_Witness ==
    /\ Reordered
    /\ Len(reorder.input) = 5
    /\ IsDeferred(reorder.input, reorder.input[1])
    /\ ~IsDeferred(reorder.input, reorder.input[2])
    /\ reorder.points # reorder.input

\* no other point of the list is within the radius of the point at place k
Isolated(L, k) == \A j \in 1..Len(L) : j # k => ~distance_lt_max(L[j], L[k])

\* a list of 5 distinct points of which exactly 2 are isolated
FiveWithTwoIsolated(L) ==
    /\ Len(L) = 5
    /\ \A i, j \in 1..5 : i # j => L[i] # L[j]
    /\ Cardinality({k \in 1..5 : Isolated(L, k)}) = 2

IsolatedPoints(L) == {L[k] : k \in {j \in 1..Len(L) : Isolated(L, j)}}

\* C20: reordering 5 points of which exactly 2 are isolated gives the 3
\* others in their input order followed by the 2 isolated points.
C20_IsolatedLast ==
    Reordered /\ FiveWithTwoIsolated(reorder.input) =>
        reorder.points =
            SelectSeq(reorder.input, LAMBDA p : p \notin IsolatedPoints(reorder.input))
               \o SelectSeq(reorder.input, LAMBDA p : p \in IsolatedPoints(reorder.input))

\* C20 amended: the 3 others have at most 3 points of the list within the
\* radius, themselves included, so all 5 points are deferred and the
\* reordering gives the list in its input order.
C20_AllDeferred ==
    Reordered /\ FiveWithTwoIsolated(reorder.input) =>
        /\ \A k \in 1..5 : IsDeferred(reorder.input, reorder.input[k])
        /\ reorder.points = reorder.input

\* such a list whose first point is isolated has been reordered
C20_Witness ==
    /\ Reordered
    /\ FiveWithTwoIsolated(reorder.input)
    /\ Isolated(reorder.input, 1)
    /\ ~Isolated(reorder.input, 5)

C23_OctantsAndFoundFlags ==
    [][ centre' # centre =>
          /\ centre'.crossing # "none"
               => \A theta \in Directions :
                     /\ Cardinality({o \in Octants : InOctant(o, -theta)}) = 1
                     /\ InOctant(Octant(-theta), -theta)
          /\ centre'.crossing \in DiagonalOctants
               => /\ centre'.platform_x_found = centre.platform_x_found
                  /\ centre'.platform_y_found = centre.platform_y_found
                  /\ centre'.touch_down # centre.touch_down
                        => /\ centre.platform_x_found = "false"
                           /\ centre.platform_y_found = "false"
          /\ centre'.crossing \in {"Front", "Back"}
               => /\ centre'.platform_x_found = "true"
                  /\ centre'.platform_y_found = centre.platform_y_found
          /\ centre'.crossing \in {"Left", "Right"}
               => /\ centre'.platform_y_found = "true"
                  /\ centre'.platform_x_found = centre.platform_x_found
          /\ centre.platform_x_found = "true" => centre'.platform_x_found = "true"
          /\ centre.platform_y_found = "true" => centre'.platform_y_found = "true"
      ]_vars

\* a diagonal crossing somewhere else than the estimate, after the X axis
\* was found, has left the estimate and the flags as they were
C23_Witness ==
    /\ centre.crossing \in DiagonalOctants
    /\ centre.platform_x_found = "true"
    /\ centre.platform_y_found = "false"
    /\ centre.touch_down.tag = "val"
    /\ <<centre.touch_down.x, centre.touch_down.y>> # centre.position
    /\ centre.error = "none"

\* C24: no call of update() nests its chained transitions until the
\* interpreter gives up: whatever the current state and the reading, the
\* tick ends without RecursionError, also when the vehicle is near the
\* candidate TargetSearch has targeted.
C24_UpdateReturns ==
    [][err' = "RecursionError" => err = "RecursionError"]_vars

\* C25: once home_pad is recorded, no step changes the object it refers to
\* or the position stored in that object, and whenever the current state
\* becomes or is ReturnHome home_pad is recorded.
C25_HomePadKept ==
    [][ /\ fctx.home_pad # None
            => /\ fctx'.home_pad = fctx.home_pad
               /\ Deref(fctx'.home_pad, vec') = Deref(fctx.home_pad, vec)
        /\ state'.kind = "ReturnHome" => fctx'.home_pad # None
      ]_vars

\* GoForward has written x = 2.0 into the target Boot created, ReturnHome has
\* made the trajectory refer to the home_pad object, and the mission has gone on
C25_Witness ==
    /\ fctx.home_pad = VecRef(2)
    /\ fctx.trajectory.position = fctx.home_pad
    /\ vec[3][1] = GoForwardX
    /\ vec[2] # vec[3]
    /\ state.kind = "GoLower"
    /\ err = "none"

\* the states of a mission from Boot in which GoForward has been entered
ScanStates == {"GoForward", "ReturnHome", "GoLower", "Stop"}

\* C26: in a mission from Boot the scan flag is false before GoForward's
\* start() and true after it, in GoForward and in every later state; no step
\* clears it; and a command synthesised while the flag is set is sent with
\* the fixed scan yaw rate.
C26_ScanKept ==
    [][ /\ state'.kind \in {"Boot", "Takeoff"} => ~fctx'.scan
        /\ (state'.kind \in ScanStates /\ ~(state'.kind = "GoForward" /\ pc' = "start"))
              => fctx'.scan
        /\ fctx.scan => fctx'.scan
        /\ (queue'.ticks # queue.ticks /\ fctx.scan)
              => queue'.command = YawRate("ANGULAR_SCAN_VELOCITY_DEG")
      ]_vars

====
